---- MODULE Spec2Model ----
(***************************************************************************)
(* Model of install_epm.py: the installer / uninstaller of the "epm"       *)
(* command.  Every run of the program is one action: the program is        *)
(* sequential and the file system is its only state.                       *)
(*                                                                         *)
(* Texts are sequences of tokens.  An rc file is a sequence over           *)
(*   EXPORT_MARK  the text "# added by install_epm.py"                     *)
(*   export_line  the text export PATH="<home>/.local/bin:$PATH"           *)
(*   Other        any other run of non-blank characters                    *)
(*   SP           white space inside a line                                *)
(*   NL           the line break                                           *)
(* so that str.splitlines, str.strip, "\n".join and the substring test     *)
(* `export_line in content` are computed, not assumed.                     *)
(*                                                                         *)
(* The privilege level and SHELL are the environment of a behaviour: they  *)
(* are drawn in Init and every run of the behaviour sees the same values.  *)
(* A file is its content and its permission bits (a set of bit names).     *)
(* Directories (target_dir.mkdir, the temporary directory, which is gone   *)
(* when a run ends) and the text printed are not part of the state.        *)
(***************************************************************************)
EXTENDS Integers, Sequences, FiniteSets, TLC

\* ------------------------------------------------------------------ bounds
MaxRcLen == 1       \* tokens in the two rc files together, initially
MaxEdits == 1       \* lines the user types into rc files during a behaviour

\* --------------------------------------------------------------- constants
EXPORT_MARK == "# added by install_epm.py"
export_line == "export PATH=\"$HOME/.local/bin:$PATH\""
Other == "x"
SP == " "
NL == "\n"
RcChars == {EXPORT_MARK, export_line, Other, SP, NL}

Shebang == "#!"
PyShebangLine == <<Shebang, "/usr/bin/env python3", NL>>
\* what a run downloads and the umask it runs under: a script without an
\* interpreter line under umask 022, one with its own under umask 077
Downloads ==
    { [body |-> <<"import os", NL>>, umask |-> {"gw", "ow"}],
      [body |-> <<Shebang, "/bin/sh", NL, "echo", NL>>,
       umask |-> {"gr", "gw", "gx", "or", "ow", "ox"}] }

BashRc == "~/.bashrc"
ZshRc == "~/.zshrc"
NoRc == "None"
RcFiles == {BashRc, ZshRc}
UserTarget == "~/.local/bin/epm"
RootTarget == "/usr/local/bin/epm"
Paths == RcFiles \cup {UserTarget, RootTarget}

XBits == {"ux", "gx", "ox"}
RWBits == {"ur", "uw", "gr", "gw", "or", "ow"}
SudoUmask == {"gw", "ow"}

bash == <<"b", "a", "s", "h">>
zsh == <<"z", "s", "h">>
\* unset, /bash, /zsh, /bash5 and /zsh/bash
ShellValues ==
    { <<>>,
      <<"/">> \o bash,
      <<"/">> \o zsh,
      <<"/">> \o bash \o <<"5">>,
      <<"/">> \o zsh \o <<"/">> \o bash }

Absent == [exists |-> FALSE, text |-> <<>>, mode |-> {}]
File(t, m) == [exists |-> TRUE, text |-> t, mode |-> m]
RcMode == {"ur", "uw", "gr", "or"}

\* ------------------------------------------------------------ text helpers
EndsWith(s, suffix) ==
    /\ Len(s) >= Len(suffix)
    /\ SubSeq(s, Len(s) - Len(suffix) + 1, Len(s)) = suffix

StartsWith(s, prefix) ==
    /\ Len(s) >= Len(prefix)
    /\ SubSeq(s, 1, Len(prefix)) = prefix

\* `tok in content` for a one-token needle
Contains(content, tok) == \E i \in DOMAIN content : content[i] = tok

\* str.splitlines(): the lines without their line breaks; a final line break
\* opens no further line
SplitLines(t) ==
    LET RECURSIVE go(_, _, _)
        go(i, cur, acc) ==
            IF i > Len(t)
            THEN IF cur = <<>> THEN acc ELSE Append(acc, cur)
            ELSE IF t[i] = NL
                 THEN go(i + 1, <<>>, Append(acc, cur))
                 ELSE go(i + 1, Append(cur, t[i]), acc)
    IN go(1, <<>>, <<>>)

\* str.strip()
RECURSIVE Strip(_)
Strip(l) ==
    IF l = <<>> THEN l
    ELSE IF Head(l) \in {SP, NL} THEN Strip(Tail(l))
    ELSE IF l[Len(l)] \in {SP, NL} THEN Strip(SubSeq(l, 1, Len(l) - 1))
    ELSE l

\* "\n".join(lines)
RECURSIVE Join(_)
Join(lines) ==
    IF lines = <<>> THEN <<>>
    ELSE IF Len(lines) = 1 THEN lines[1]
    ELSE lines[1] \o <<NL>> \o Join(Tail(lines))

\* ------------------------------------------------------------------- state
VARIABLES
    is_root,    \* os.geteuid() == 0 for the runs of this behaviour
    SHELL,      \* os.environ.get("SHELL", "")
    fs,         \* the files the program touches: path -> file
    last,       \* the last event: the run of the program, or a user edit
    owned,      \* has: an install appended its pair and no uninstall ran since;
                \* others: the other lines of that rc file, those it held before
                \* the install and those the user typed since
    streak,     \* consecutive successful installs since a clean rc file:
                \* 0, 1, or 2 for two or more
    edits       \* lines typed by the user so far

vars == <<is_root, SHELL, fs, last, owned, streak, edits>>

NoArgs == [uninstall |-> FALSE, password |-> "-"]
NoRun == [op |-> "none", args |-> NoArgs, exit |-> 0, resp |-> "-", sudo |-> "-"]
NoPair == [has |-> FALSE, others |-> <<>>]

RECURSIVE Texts(_)
Texts(n) ==
    IF n = 0 THEN { <<>> }
    ELSE Texts(n - 1) \cup
         { Append(t, c) : t \in { u \in Texts(n - 1) : Len(u) = n - 1 }, c \in RcChars }

RcInit == {Absent} \cup { File(t, RcMode) : t \in Texts(MaxRcLen) }

\* ------------------------------------------------- the program's functions
\* download_epm: the file open(dest_path, "wb") creates and resp.read() fills
CreateMode(umask) == RWBits \ umask

\* faulty variant: only the exceptions urlopen raises are failures, the status is not read
DownloadOk_AnyStatus(resp) == resp \notin {"403", "URLError"}

DownloadOk(resp) == resp = "200"

\* install, lines 109-112: prepend the interpreter line unless text starts with "#!"
NormalizeHeader(text) ==
    IF ~StartsWith(text, <<Shebang>>) THEN PyShebangLine \o text ELSE text

\* faulty variant: the owner's bit only
make_executable_OwnerOnly(file) == [file EXCEPT !.mode = file.mode \cup {"ux"}]

\* make_executable: mode | S_IXUSR | S_IXGRP | S_IXOTH
make_executable(file) == [file EXCEPT !.mode = file.mode \cup XBits]

\* shutil.move(src, dst) onto a file path: os.rename, or, when dst is on
\* another file system, copy2 (content and mode) and unlink of the source;
\* both replace whatever dst held by the source's content and mode
Move(f, src, dst) == [f EXCEPT ![dst] = File(src.text, src.mode)]

\* ensure_path_in_shell_rc, lines 52-58
EnsureRcFile(shell) ==
    IF EndsWith(shell, bash) THEN BashRc
    ELSE IF EndsWith(shell, zsh) THEN ZshRc
    ELSE NoRc

\* `needle in s` for sequences
ContainsSeq(s, needle) ==
    \E i \in 0..(Len(s) - Len(needle)) : SubSeq(s, i + 1, i + Len(needle)) = needle

\* faulty variant: substring tests in place of endswith
RemoveRcFile_Substring(shell) ==
    IF ContainsSeq(shell, bash) THEN BashRc
    ELSE IF ContainsSeq(shell, zsh) THEN ZshRc
    ELSE NoRc

\* remove_path_from_shell_rc, lines 70-76
RemoveRcFile(shell) ==
    IF EndsWith(shell, bash) THEN BashRc
    ELSE IF EndsWith(shell, zsh) THEN ZshRc
    ELSE NoRc

\* rc_file.read_text() if rc_file.exists() else ""
ReadOrEmpty(file) == IF file.exists THEN file.text ELSE <<>>

\* the text open(rc_file, "a") appends
AppendedBlock == <<NL, EXPORT_MARK, NL, export_line, NL>>

\* faulty variant: the block is appended without looking
NeedsExport_Always(content) == TRUE

\* `export_line not in content`
NeedsExport(content) == ~Contains(content, export_line)

ensure_path_in_shell_rc(f, shell) ==
    LET rc_file == EnsureRcFile(shell) IN
    IF rc_file = NoRc THEN f
    ELSE LET content == ReadOrEmpty(f[rc_file]) IN
         IF NeedsExport(content)
         THEN [f EXCEPT ![rc_file] =
                  File(content \o AppendedBlock,
                       IF f[rc_file].exists THEN f[rc_file].mode ELSE RcMode)]
         ELSE f

\* the for loop of remove_path_from_shell_rc, lines 81-90
RECURSIVE FilterLines(_, _)
FilterLines(lines, skip) ==
    IF lines = <<>> THEN <<>>
    ELSE LET line == Head(lines) IN
         IF Strip(line) = <<EXPORT_MARK>> THEN FilterLines(Tail(lines), TRUE)
         ELSE IF skip /\ Strip(line) = <<export_line>>
              THEN FilterLines(Tail(lines), FALSE)
         ELSE <<line>> \o FilterLines(Tail(lines), skip)

\* lines 79-91: read_text().splitlines(), the loop, write_text("\n".join(...))
CleanedText(text) == Join(FilterLines(SplitLines(text), FALSE))

remove_path_from_shell_rc(f, shell) ==
    LET rc_file == RemoveRcFile(shell) IN
    IF rc_file = NoRc \/ ~f[rc_file].exists THEN f
    ELSE [f EXCEPT ![rc_file] = File(CleanedText(f[rc_file].text), f[rc_file].mode)]

\* target_dir / "epm" by privilege level (install 96-101, uninstall 158-162)
InstallTarget(root) == IF root THEN RootTarget ELSE UserTarget
UninstallTarget(root) == IF root THEN RootTarget ELSE UserTarget

\* the root wrapper, lines 132-152: sudo tee, then sudo chmod +x
wrapper_sh == <<Shebang, "/usr/bin/env bash", NL, "exec", UserTarget, "$@", NL>>

SudoTee(f) ==
    [f EXCEPT ![RootTarget] =
        File(wrapper_sh,
             IF f[RootTarget].exists THEN f[RootTarget].mode ELSE CreateMode(SudoUmask))]

SudoChmodX(f) == [f EXCEPT ![RootTarget] = make_executable(f[RootTarget])]

WriteWrapper(f, sudo) ==
    IF sudo = "tee_fails" THEN f
    ELSE IF sudo = "chmod_fails" THEN SudoTee(f)
    ELSE SudoChmodX(SudoTee(f))

\* install(password): the files after the run
InstallFs(f, root, shell, resp, body, umask, sudo) ==
    IF ~DownloadOk(resp) THEN f
    ELSE LET epm_py == File(NormalizeHeader(body), CreateMode(umask))
             moved == Move(f, make_executable(epm_py), InstallTarget(root))
         IN IF ~root
            THEN WriteWrapper(ensure_path_in_shell_rc(moved, shell), sudo)
            ELSE moved

\* faulty variant: the wrapper's failure ends the run
InstallExit_WrapperFatal(resp, sudo) ==
    IF ~DownloadOk(resp) \/ sudo \in {"tee_fails", "chmod_fails"} THEN 1 ELSE 0

\* sys.exit(1) of download_epm; else the run ends normally, the wrapper's
\* failure being caught by `except Exception` (line 149)
InstallExit(resp, sudo) == IF ~DownloadOk(resp) THEN 1 ELSE 0

\* uninstall(): the files after the run
UninstallFs(f, root, shell) ==
    LET target_path == UninstallTarget(root)
        removed == IF f[target_path].exists
                   THEN [f EXCEPT ![target_path] = Absent]
                   ELSE f
    IN IF ~root THEN remove_path_from_shell_rc(removed, shell) ELSE removed

\* argparse: parser.error prints the usage and exits with status 2
ParserErrorExit == 2

\* ----------------------------------------------------------------- inputs
NoPassword == "None"
Passwords == {NoPassword, "", "hunter2"}
Args == [uninstall : BOOLEAN, password : Passwords]
\* faulty variant: `args.password is None`
Missing_OnlyNone(password) == password = NoPassword

\* `not args.password`
Missing(password) == password \in {NoPassword, ""}
\* urlopen: 200, another status without an exception, an HTTPError, a URLError
Responses == {"200", "204", "403", "URLError"}
SudoOutcomes == {"ok", "tee_fails", "chmod_fails"}

IsClean(content) == ~Contains(content, EXPORT_MARK) /\ ~Contains(content, export_line)

\* ------------------------------------------------------------------ actions
Init ==
    /\ is_root \in BOOLEAN
    /\ SHELL \in ShellValues
    /\ \E b \in RcInit, z \in RcInit :
          /\ Len(b.text) + Len(z.text) <= MaxRcLen
          /\ fs = [p \in Paths |-> IF p = BashRc THEN b
                                   ELSE IF p = ZshRc THEN z ELSE Absent]
    /\ last = NoRun
    /\ owned = NoPair
    /\ streak = 0
    /\ edits = 0

\* install(args.password) with the inputs of the run
InstallRun(args, resp, body, umask, sudo) ==
    /\ fs' = InstallFs(fs, is_root, SHELL, resp, body, umask, sudo)
    /\ last' = [op |-> "install", args |-> args, exit |-> InstallExit(resp, sudo),
                resp |-> resp, sudo |-> sudo]
    /\ LET rc_file == EnsureRcFile(SHELL)
           done == DownloadOk(resp) /\ ~is_root /\ rc_file # NoRc
           content == IF done THEN ReadOrEmpty(fs[rc_file]) ELSE <<>>
       IN /\ owned' = IF done /\ NeedsExport(content)
                      THEN [has |-> TRUE, others |-> SplitLines(content)]
                      ELSE owned
          /\ streak' = IF ~done THEN 0
                       ELSE IF streak > 0 THEN 2
                       ELSE IF IsClean(content) THEN 1 ELSE 0
    /\ UNCHANGED <<is_root, SHELL, edits>>

\* python3 install_epm.py <password>; the body, the umask and the outcome of
\* sudo are drawn only on the paths that read them
MainInstall ==
    \E args \in Args, resp \in Responses :
       /\ ~args.uninstall
       /\ ~Missing(args.password)
       /\ IF ~DownloadOk(resp)
          THEN InstallRun(args, resp, <<>>, {}, "-")
          ELSE \E d \in Downloads :
                  IF is_root
                  THEN InstallRun(args, resp, d.body, d.umask, "-")
                  ELSE \E sudo \in SudoOutcomes :
                          InstallRun(args, resp, d.body, d.umask, sudo)

\* python3 install_epm.py   (no password, or an empty one)
MainUsageError ==
    \E args \in Args :
       /\ ~args.uninstall
       /\ Missing(args.password)
       /\ last' = [op |-> "usage_error", args |-> args, exit |-> ParserErrorExit,
                   resp |-> "-", sudo |-> "-"]
       /\ streak' = 0
       /\ UNCHANGED <<is_root, SHELL, fs, owned, edits>>

\* python3 install_epm.py --uninstall [password]
MainUninstall ==
    \E args \in Args :
       /\ args.uninstall
       /\ fs' = UninstallFs(fs, is_root, SHELL)
       /\ last' = [op |-> "uninstall", args |-> args, exit |-> 0, resp |-> "-",
                   sudo |-> "-"]
       /\ owned' = NoPair
       /\ streak' = 0
       /\ UNCHANGED <<is_root, SHELL, edits>>

\* the user types one more line at the top or at the bottom of the rc file of
\* their shell
UserLines == { <<Other>> }

UserEdit ==
    \E rc_file \in RcFiles, line \in UserLines, top \in BOOLEAN :
       /\ rc_file = EnsureRcFile(SHELL)
       /\ edits < MaxEdits
       /\ edits' = edits + 1
       /\ LET content == ReadOrEmpty(fs[rc_file]) IN
          fs' = [fs EXCEPT ![rc_file] =
                    File(IF top THEN line \o <<NL>> \o content
                                ELSE content \o line \o <<NL>>,
                         IF fs[rc_file].exists THEN fs[rc_file].mode ELSE RcMode)]
       /\ last' = [op |-> "user_edit", args |-> NoArgs, exit |-> 0, resp |-> "-",
                   sudo |-> "-"]
       /\ owned' = IF owned.has
                   THEN [owned EXCEPT !.others =
                            IF top THEN <<line>> \o @ ELSE Append(@, line)]
                   ELSE owned
       /\ streak' = 0
       /\ UNCHANGED <<is_root, SHELL>>

Next == MainInstall \/ MainUsageError \/ MainUninstall \/ UserEdit

Spec == Init /\ [][Next]_vars

\* ------------------------------------------------------------------ claims
Count(text, tok) == Cardinality({ i \in DOMAIN text : text[i] = tok })

IsMarkerLine(line) == Strip(line) = <<EXPORT_MARK>>
IsExportLine(line) == Strip(line) = <<export_line>>

HasMarkerLine(text) ==
    \E i \in DOMAIN SplitLines(text) : IsMarkerLine(SplitLines(text)[i])

\* a marker line immediately followed by the export line
HasPair(text) ==
    LET lines == SplitLines(text) IN
    \E i \in 1..(Len(lines) - 1) : IsMarkerLine(lines[i]) /\ IsExportLine(lines[i + 1])

\* the lines left when every marker line immediately followed by the export
\* line is dropped together with that export line
RECURSIVE DropPairs(_)
DropPairs(lines) ==
    IF lines = <<>> THEN <<>>
    ELSE IF Len(lines) >= 2 /\ IsMarkerLine(lines[1]) /\ IsExportLine(lines[2])
         THEN DropPairs(Tail(Tail(lines)))
    ELSE <<Head(lines)>> \o DropPairs(Tail(lines))

\* the rc file by the end of the shell value
SuffixRc(shell) ==
    IF EndsWith(shell, bash) THEN BashRc
    ELSE IF EndsWith(shell, zsh) THEN ZshRc
    ELSE NoRc

PrivilegeTarget == IF is_root THEN RootTarget ELSE UserTarget

InstallDone(l) == l.op = "install" /\ l.resp = "200"
IsRun(l) == l.op \in {"install", "uninstall", "usage_error"}

\* C1: after two or more consecutive successful unprivileged installs that
\* started from an rc file holding neither the marker nor the export line, the
\* rc file holds the export line exactly once and the marker exactly once.
C1_RepeatedInstallOnePair ==
    streak = 2 =>
        /\ Count(fs[SuffixRc(SHELL)].text, export_line) = 1
        /\ Count(fs[SuffixRc(SHELL)].text, EXPORT_MARK) = 1

C1_Witness ==
    /\ streak = 2
    /\ last.op = "install"
    /\ Count(fs[SuffixRc(SHELL)].text, export_line) = 1

\* C2: an unprivileged uninstall that follows an install which appended its
\* pair (the user having typed lines above or below it in between) removes the
\* artifact and leaves in the rc file exactly the lines it held before the
\* install and the lines the user typed, in order: only the pair is gone and
\* no line is added or lost.
C2_UninstallRemovesExactlyThePair ==
    [][ (owned.has /\ ~is_root /\ last'.op = "uninstall")
          => /\ ~fs'[UserTarget].exists
             /\ SplitLines(fs'[SuffixRc(SHELL)].text) = owned.others ]_vars

\* C3: the rc cleanup of uninstall writes back the lines it read less the
\* marker lines immediately followed by the export line and those export
\* lines; every other line, a marker or an export line standing alone
\* included, is kept, in order.
C3_OnlyAdjacentPairsRemoved ==
    [][ (~is_root /\ last'.op = "uninstall"
         /\ SuffixRc(SHELL) # NoRc /\ fs[SuffixRc(SHELL)].exists)
          => fs'[SuffixRc(SHELL)].text =
                Join(DropPairs(SplitLines(fs[SuffixRc(SHELL)].text))) ]_vars

\* C4: an install whose download fails (a status other than 200, or an
\* exception) exits non-zero and leaves the artifact, the rc files and the
\* wrapper as they were.
C4_DownloadFailureChangesNothing ==
    [][ (last'.op = "install" /\ last'.resp # "200")
          => /\ last'.exit # 0
             /\ fs' = fs ]_vars

C4_Witness ==
    /\ last.op = "install"
    /\ last.resp = "403"
    /\ last.exit = 1
    /\ ~fs[PrivilegeTarget].exists

C6_UninstallOfNothingIsNoOp ==
    [][ (~is_root /\ last'.op = "uninstall" /\ ~fs[UserTarget].exists
         /\ \A rc \in RcFiles : IsClean(fs[rc].text))
          => /\ last'.exit = 0
             /\ fs' = fs ]_vars

\* C7: after a completed install the target path of the privilege level holds
\* the downloaded script (with an interpreter line), executable by owner, group
\* and other, with the bits the downloaded file was created with.
C7_InstalledExecutable ==
    (last.op = "install" /\ last.exit = 0) =>
        /\ fs[PrivilegeTarget].exists
        /\ XBits \subseteq fs[PrivilegeTarget].mode
        /\ \E d \in Downloads :
              /\ fs[PrivilegeTarget].text \in {d.body, PyShebangLine \o d.body}
              /\ StartsWith(fs[PrivilegeTarget].text, <<Shebang>>)
              /\ (RWBits \ d.umask) \subseteq fs[PrivilegeTarget].mode

C7_Witness ==
    /\ last.op = "install"
    /\ last.exit = 0
    /\ is_root
    /\ fs[RootTarget].text = PyShebangLine \o <<"import os", NL>>
    /\ fs[RootTarget].mode = {"ur", "uw", "gr", "or", "ux", "gx", "ox"}

\* C8: an unprivileged uninstall right after an unprivileged install whose
\* wrapper step succeeded leaves no artifact, no marker pair in the rc file and
\* no wrapper at /usr/local/bin/epm.
C8_UninstallReversesInstall ==
    [][ (~is_root /\ InstallDone(last) /\ last.sudo = "ok" /\ last'.op = "uninstall")
          => /\ ~fs'[UserTarget].exists
             /\ SuffixRc(SHELL) # NoRc => ~HasPair(fs'[SuffixRc(SHELL)].text)
             /\ ~fs'[RootTarget].exists ]_vars

\* the rc edits of the step target rc: no other rc file changes, a completed
\* install leaves the export line in rc, an uninstall leaves no marker line in it
RcTargets(rc) ==
    /\ \A p \in RcFiles \ {rc} : fs'[p] = fs[p]
    /\ rc # NoRc =>
          /\ InstallDone(last') => fs'[rc].exists /\ Contains(fs'[rc].text, export_line)
          /\ (last'.op = "uninstall" /\ fs[rc].exists) => ~HasMarkerLine(fs'[rc].text)

RcRun == ~is_root /\ (InstallDone(last') \/ last'.op = "uninstall")

\* C9 as amended: in an unprivileged install or uninstall the rc edits target
\* ~/.bashrc when SHELL ends with "bash", ~/.zshrc when it ends with "zsh", and
\* no rc file changes otherwise; install and uninstall select alike.
C9_RcFileBySuffix ==
    [][ RcRun => RcTargets(SuffixRc(SHELL)) ]_vars

C9_Witness ==
    /\ ~is_root
    /\ SHELL = <<"/">> \o zsh
    /\ InstallDone(last)
    /\ Contains(fs[ZshRc].text, export_line)
    /\ ~Contains(fs[BashRc].text, export_line)

\* C9 as stated: the rc edits target ~/.zshrc for every value that contains
\* "zsh", ~/.bashrc for every value that contains "bash", no file otherwise.
C9_RcFileBySubstring ==
    [][ RcRun =>
          /\ ContainsSeq(SHELL, zsh) => RcTargets(ZshRc)
          /\ ContainsSeq(SHELL, bash) => RcTargets(BashRc)
          /\ (~ContainsSeq(SHELL, zsh) /\ ~ContainsSeq(SHELL, bash))
                => RcTargets(NoRc) ]_vars

\* C10: an unprivileged install whose wrapper step fails (at sudo tee or at
\* sudo chmod) still exits 0, and the artifact and the rc files are those of
\* the same install with a working sudo; a failed tee leaves the wrapper path
\* as it was.
C10_WrapperFailureNotFatal ==
    [][ (~is_root /\ InstallDone(last')
         /\ last'.sudo \in {"tee_fails", "chmod_fails"})
          => /\ last'.exit = 0
             /\ fs'[UserTarget].exists
             /\ XBits \subseteq fs'[UserTarget].mode
             /\ SuffixRc(SHELL) # NoRc
                   => Contains(fs'[SuffixRc(SHELL)].text, export_line)
             /\ \E d \in Downloads :
                   \A p \in Paths \ {RootTarget} :
                      fs'[p] = InstallFs(fs, is_root, SHELL, "200", d.body,
                                         d.umask, "ok")[p]
             /\ last'.sudo = "tee_fails" => fs'[RootTarget] = fs[RootTarget] ]_vars

C10_Witness ==
    /\ ~is_root
    /\ InstallDone(last)
    /\ last.sudo = "chmod_fails"
    /\ last.exit = 0
    /\ fs[UserTarget].exists
    /\ fs[RootTarget].text = wrapper_sh
    /\ ~(XBits \subseteq fs[RootTarget].mode)

====
